---- MODULE Spec2Model ----
(***************************************************************************)
(* A model of the UTXO class of privacyjs (src/src/utxo.js): decoding a    *)
(* compact on-chain coin record into curve points, rebuilding a coin from  *)
(* a generation proof, the ownership check and the RingCT key derivation.  *)
(*                                                                         *)
(* The curve is a scaled-down secp256k1: y^2 = x^3 + 7 over a small prime  *)
(* field p = 3 (mod 4) whose group has prime order n, so that every        *)
(* formula of the library (square root by exponent (p+1)/4, parity flip,   *)
(* point addition and doubling) is computed exactly as on the real curve.  *)
(* Strings are sequences of digits, buffers are sequences of bytes.        *)
(***************************************************************************)
EXTENDS Integers, Sequences, FiniteSets, TLC

(***************************************************************************)
(* Bounds of the model.                                                    *)
(***************************************************************************)
\* private spend keys tried are 1..MaxKey
MaxKey == 3
\* plaintext amounts are 1..MaxAmount
MaxAmount == 2
\* blinding masks are 1..MaxMask
MaxMask == 2
\* ephemeral transaction secrets are 1..MaxR
MaxR == 2
\* X-coordinates of hand-made (not generated) records are 0..MaxRawX
MaxRawX == 1
\* calls made on one instance
MaxCalls == 3

(***************************************************************************)
(* The curve (utxo.js line 16) and the library's arithmetic.               *)
(***************************************************************************)
\* bytes of one coordinate of a long-form point: 32 in the program (slice(1, 33),
\* slice(-33)), 2 for the scaled-down field
CoordLen == 2

ecparams ==
    [p |-> 823, a |-> 0, b |-> 7, n |-> 829,
     G |-> [inf |-> FALSE, x |-> 2, y |-> 76],
     pOverFour |-> 206]

\* the values BigInteger holds, and the points of ecurve in affine form
Point == [inf : BOOLEAN, x : Nat, y : Nat]

infinity == [inf |-> TRUE, x |-> 0, y |-> 0]

fromAffine(x, y) == [inf |-> FALSE, x |-> x, y |-> y]

\* BigInteger.modPow(e, p)
modPow[base \in Nat, e \in Nat] ==
    IF e = 0 THEN 1
    ELSE IF e % 2 = 1 THEN (base * modPow[base, e - 1]) % ecparams.p
    ELSE modPow[(base * base) % ecparams.p, e \div 2]

\* BigInteger.modInverse(p)
modInverse[v \in Nat] == modPow[v % ecparams.p, ecparams.p - 2]

\* Curve.isOnCurve: y^2 = x^3 + a x + b (mod p)
isOnCurve(Q) ==
    \/ Q.inf
    \/ LET p  == ecparams.p
           xr == Q.x % p
           x3 == (((xr * xr) % p) * xr) % p
       IN  (Q.y * Q.y) % p = (x3 + ecparams.a * xr + ecparams.b) % p

\* the third point of the line of slope lam through (x1, y1) and (x2, .)
thirdPoint[x1 \in Nat, y1 \in Nat, x2 \in Nat, lam \in Nat] ==
    LET p  == ecparams.p
        x3 == (lam * lam + (p - x1) + (p - x2)) % p
    IN  fromAffine(x3, (lam * ((x1 + p - x3) % p) + (p - y1)) % p)

\* Point.twice
twice[Q \in Point] ==
    IF Q.inf THEN Q
    ELSE IF Q.y % ecparams.p = 0 THEN infinity
    ELSE LET p  == ecparams.p
             xr == Q.x % p
             yr == Q.y % p
         IN  thirdPoint[xr, yr, xr,
                 (((3 * xr * xr + ecparams.a) % p) * modInverse[(2 * yr) % p]) % p]

\* Point.add
add[Q1 \in Point, Q2 \in Point] ==
    IF Q1.inf THEN Q2
    ELSE IF Q2.inf THEN Q1
    ELSE LET p  == ecparams.p
             x1 == Q1.x % p
             y1 == Q1.y % p
             x2 == Q2.x % p
             y2 == Q2.y % p
         IN  IF x1 = x2
             THEN IF y1 = y2 THEN twice[Q1] ELSE infinity
             ELSE thirdPoint[x1, y1, x2,
                      (((y2 + p - y1) % p) * modInverse[(x2 + p - x1) % p]) % p]

\* Point.multiply
multiply[Q \in Point, k \in Nat] ==
    IF k = 0 THEN infinity
    ELSE IF k % 2 = 1 THEN add[multiply[Q, k - 1], Q]
    ELSE twice[multiply[Q, k \div 2]]

\* the root beta of alpha by exponent (p+1)/4, negated when its parity is not
\* the requested one
rootOfParity[isOdd \in BOOLEAN, beta \in Nat] ==
    IF (beta % 2 = 0) # (~isOdd) THEN ecparams.p - beta ELSE beta

\* Curve.pointFromX(isOdd, x): alpha = x^3 + a x + b, beta = alpha^((p+1)/4),
\* y = beta or p - beta.  The library does not test that beta squares back to
\* alpha, so for an x that is on no point of the curve it returns a point
\* that is not on the curve.
pointFromX(isOdd, x) ==
    LET p     == ecparams.p
        xr    == x % p
        alpha == (((((xr * xr) % p) * xr) % p) + ecparams.a * xr + ecparams.b) % p
    IN  fromAffine(x, rootOfParity[isOdd, modPow[alpha, ecparams.pOverFour]])

(***************************************************************************)
(* Strings and buffers.                                                    *)
(***************************************************************************)
\* Number.prototype.toString(10), as a sequence of digits
DecString[v \in Nat] ==
    IF v < 10 THEN <<v>> ELSE Append(DecString[v \div 10], v % 10)

\* BigInteger(string) and parseInt(string): a decimal string read as a number
ParseDec[s \in Seq(Nat)] ==
    IF s = <<>> THEN 0
    ELSE ParseDec[SubSeq(s, 1, Len(s) - 1)] * 10 + s[Len(s)]

\* BigInteger.toBuffer(len): a number as len big-endian bytes
toBuffer[v \in Nat, len \in Nat] ==
    IF len = 0 THEN <<>> ELSE Append(toBuffer[v \div 256, len - 1], v % 256)

\* BigInteger.fromBuffer
fromBuffer[buf \in Seq(Nat)] ==
    IF buf = <<>> THEN 0
    ELSE fromBuffer[SubSeq(buf, 1, Len(buf) - 1)] * 256 + buf[Len(buf)]

\* Point.getEncoded(false): 0x04 || X || Y
getEncoded[Q \in Point] ==
    IF Q.inf THEN <<0>>
    ELSE <<4>> \o toBuffer[Q.x, CoordLen] \o toBuffer[Q.y, CoordLen]

\* Point.decodeFrom on a long-form buffer
decodeFrom[buf \in Seq(Nat)] ==
    fromAffine(fromBuffer[SubSeq(buf, 2, 1 + CoordLen)],
               fromBuffer[SubSeq(buf, 2 + CoordLen, 1 + 2 * CoordLen)])

\* Uint8Array.prototype.join(''): the bytes' decimal forms, concatenated
join[buf \in Seq(Nat)] ==
    IF buf = <<>> THEN <<>>
    ELSE DecString[buf[1]] \o join[SubSeq(buf, 2, Len(buf))]

\* numberToHex: a number as a sequence of hexadecimal digits
numberToHex[v \in Nat] ==
    IF v < 16 THEN <<v>> ELSE Append(numberToHex[v \div 16], v % 16)

\* a hexadecimal string read back as a number
hexToNumber[s \in Seq(Nat)] ==
    IF s = <<>> THEN 0
    ELSE hexToNumber[SubSeq(s, 1, Len(s) - 1)] * 16 + s[Len(s)]

(***************************************************************************)
(* The UTXO object.                                                        *)
(***************************************************************************)
undefined == <<>>

\* the object before the constructor has run
NoUTXO ==
    [commitmentX |-> <<>>, commitmentYBit |-> <<>>,
     pubkeyX |-> <<>>, pubkeyYBit |-> <<>>,
     amount |-> <<>>, mask |-> <<>>,
     txPubX |-> <<>>, txPubYBit |-> <<>>,
     index |-> 0,
     lfStealth |-> infinity, lfTxPublicKey |-> infinity, lfCommitment |-> infinity,
     decodedAmount |-> undefined, decodedMask |-> undefined, privKey |-> undefined]

\* the constructor with the parity test inverted (% 2 === 0)
constructorEvenParity(utxo) ==
    [commitmentX    |-> utxo.X[1],
     commitmentYBit |-> utxo.YBit[1],
     pubkeyX        |-> utxo.X[2],
     pubkeyYBit     |-> utxo.YBit[2],
     amount         |-> numberToHex[utxo.enc[1]],
     mask           |-> numberToHex[utxo.enc[2]],
     txPubX         |-> utxo.X[3],
     txPubYBit      |-> utxo.YBit[3],
     index          |-> utxo.index,
     lfStealth      |-> pointFromX(ParseDec[utxo.YBit[2]] % 2 = 0, ParseDec[utxo.X[2]]),
     lfTxPublicKey  |-> pointFromX(ParseDec[utxo.YBit[3]] % 2 = 0, ParseDec[utxo.X[3]]),
     lfCommitment   |-> pointFromX(ParseDec[utxo.YBit[1]] % 2 = 0, ParseDec[utxo.X[1]]),
     decodedAmount  |-> undefined,
     decodedMask    |-> undefined,
     privKey        |-> undefined]

\* the constructor reading the commitment from the one-time address's slots
\* (utxo['0']['1'] and utxo['1']['1'] in place of utxo['0']['0'] and utxo['1']['0'])
constructorWrongSlot(utxo) ==
    [commitmentX    |-> utxo.X[2],
     commitmentYBit |-> utxo.YBit[2],
     pubkeyX        |-> utxo.X[2],
     pubkeyYBit     |-> utxo.YBit[2],
     amount         |-> numberToHex[utxo.enc[1]],
     mask           |-> numberToHex[utxo.enc[2]],
     txPubX         |-> utxo.X[3],
     txPubYBit      |-> utxo.YBit[3],
     index          |-> utxo.index,
     lfStealth      |-> pointFromX(ParseDec[utxo.YBit[2]] % 2 = 1, ParseDec[utxo.X[2]]),
     lfTxPublicKey  |-> pointFromX(ParseDec[utxo.YBit[3]] % 2 = 1, ParseDec[utxo.X[3]]),
     lfCommitment   |-> pointFromX(ParseDec[utxo.YBit[2]] % 2 = 1, ParseDec[utxo.X[2]]),
     decodedAmount  |-> undefined,
     decodedMask    |-> undefined,
     privKey        |-> undefined]

\* constructor(utxo): the record has X |-> <<X0, X1, X2>>, YBit |-> <<b0, b1, b2>>,
\* enc |-> <<amount, mask>> and index
constructor(utxo) ==
    [commitmentX    |-> utxo.X[1],
     commitmentYBit |-> utxo.YBit[1],
     pubkeyX        |-> utxo.X[2],
     pubkeyYBit     |-> utxo.YBit[2],
     amount         |-> numberToHex[utxo.enc[1]],
     mask           |-> numberToHex[utxo.enc[2]],
     txPubX         |-> utxo.X[3],
     txPubYBit      |-> utxo.YBit[3],
     index          |-> utxo.index,
     lfStealth      |-> pointFromX(ParseDec[utxo.YBit[2]] % 2 = 1, ParseDec[utxo.X[2]]),
     lfTxPublicKey  |-> pointFromX(ParseDec[utxo.YBit[3]] % 2 = 1, ParseDec[utxo.X[3]]),
     lfCommitment   |-> pointFromX(ParseDec[utxo.YBit[1]] % 2 = 1, ParseDec[utxo.X[1]]),
     decodedAmount  |-> undefined,
     decodedMask    |-> undefined,
     privKey        |-> undefined]

\* buf.slice(-n): the last n bytes
sliceLast(buf, n) == SubSeq(buf, Len(buf) - n + 1, Len(buf))

\* BigInteger.fromBuffer(point.slice(-33)).isEven() ? '0' : '1'
parityString(buf) ==
    IF fromBuffer[sliceLast(buf, CoordLen + 1)] % 2 = 0 THEN <<0>> ELSE <<1>>

\* static fromProof(proof)
fromProof(proof) ==
    constructor(
        [X     |-> << join[SubSeq(proof.commitment, 2, 1 + CoordLen)],
                      join[SubSeq(proof.onetimeAddress, 2, 1 + CoordLen)],
                      join[SubSeq(proof.txPublicKey, 2, 1 + CoordLen)] >>,
         YBit  |-> << parityString(proof.commitment),
                      parityString(proof.onetimeAddress),
                      parityString(proof.txPublicKey) >>,
         enc   |-> << proof.encryptedAmount, proof.encryptedMask >>,
         index |-> proof.index])

(***************************************************************************)
(* The collaborators utxo.js imports: ./address, ./stealth and             *)
(* ../../src/commitment, after sections 4.2 and 4.3 of the specification.  *)
(***************************************************************************)
\* hash-to-scalar of a curve point, into 1..n-1
hs[Q \in Point] == 1 + ((31 * Q.x + 17 * Q.y + 5) % (ecparams.n - 1))

\* the keystreams derived from the shared secret q
amountKey(q) == (7 * q + 3) % ecparams.n
maskKey(q) == (11 * q + 5) % ecparams.n
encrypt(v, k) == (v + k) % ecparams.n
decrypt(c, k) == (c + ecparams.n - k) % ecparams.n

\* generateKeys(privateSpendKey): the view key is derived from the spend key
generateKeys[privateSpendKey \in Nat] ==
    LET v == 1 + ((privateSpendKey * privateSpendKey + 3) % (ecparams.n - 1))
    IN  [privSpendKey |-> privateSpendKey,
         privViewKey  |-> v,
         pubSpendKey  |-> multiply[ecparams.G, privateSpendKey],
         pubViewKey   |-> multiply[ecparams.G, v]]

KeyPair == [privSpendKey : Nat, privViewKey : Nat, pubSpendKey : Point, pubViewKey : Point]

\* the negative result of an ownership test
Null == [isNull |-> TRUE, amount |-> 0, mask |-> 0, privKey |-> 0, pubKey |-> infinity]

\* steps 2 to 4 of the ownership test, given the shared secret q and E = q G + S
decodeWith[receiver \in KeyPair, q \in Nat, E \in Point, onetimeAddress \in Seq(Nat), encAmount \in Seq(Nat), encMask \in Seq(Nat)] ==
    IF getEncoded[E] # onetimeAddress THEN Null
    ELSE [isNull  |-> FALSE,
          amount  |-> decrypt(hexToNumber[encAmount], amountKey(q)),
          mask    |-> decrypt(hexToNumber[encMask], maskKey(q)),
          privKey |-> (q + receiver.privSpendKey) % ecparams.n,
          pubKey  |-> E]

\* the coin's expected one-time address for the receiver: q G + S
expectedAddress[receiver \in KeyPair, q \in Nat] ==
    add[multiply[ecparams.G, q], receiver.pubSpendKey]

\* the shared secret q = hs(v R)
sharedSecret[receiver \in KeyPair, txPublicKey \in Seq(Nat)] ==
    hs[multiply[decodeFrom[txPublicKey], receiver.privViewKey]]

\* Stealth.checkTransactionProof(R, P, encryptedAmount, encryptedMask):
\* q = hs(v R); the coin is the receiver's iff P = q G + S; then x = q + s mod n
checkTransactionProof[receiver \in KeyPair, txPublicKey \in Seq(Nat), onetimeAddress \in Seq(Nat), encAmount \in Seq(Nat), encMask \in Seq(Nat)] ==
    decodeWith[receiver,
               sharedSecret[receiver, txPublicKey],
               expectedAddress[receiver, sharedSecret[receiver, txPublicKey]],
               onetimeAddress, encAmount, encMask]

\* the second generator of the commitment scheme
H == multiply[ecparams.G, 5]

\* Commitment.genCommitment(amount, mask) = amount G + mask H
genCommitment[amount \in Nat, mask \in Nat] ==
    add[multiply[ecparams.G, amount], multiply[H, mask]]

\* Commitment.verifyCommitment(amount, mask, {X, YBit})
verifyCommitment(amount, mask, commitment) ==
    getEncoded[genCommitment[amount, mask]]
        = getEncoded[pointFromX(ParseDec[commitment.YBit] % 2 = 1, ParseDec[commitment.X])]

\* the proof of a coin whose shared secret is q
proofWith[keys \in KeyPair, q \in Nat, amount \in Nat, mask \in Nat, r \in Nat, index \in Nat] ==
    [onetimeAddress  |-> getEncoded[expectedAddress[keys, q]],
     txPublicKey     |-> getEncoded[multiply[ecparams.G, r]],
     encryptedAmount |-> encrypt(amount, amountKey(q)),
     mask            |-> mask,
     commitment      |-> getEncoded[genCommitment[amount, mask]],
     encryptedMask   |-> encrypt(mask, maskKey(q)),
     index           |-> index]

\* Stealth.genTransactionProof: a coin for the receiver of spend key owner,
\* with ephemeral secret r: R = r G, q = hs(r V), P = q G + S
genTransactionProof[keys \in KeyPair, amount \in Nat, mask \in Nat, r \in Nat, index \in Nat] ==
    proofWith[keys, hs[multiply[keys.pubViewKey, r]], amount, mask, r, index]

Proof ==
    [onetimeAddress : Seq(Nat), txPublicKey : Seq(Nat), encryptedAmount : Nat,
     mask : Nat, commitment : Seq(Nat), encryptedMask : Nat, index : Nat]

\* the compact on-chain record of three decoded points
compactWith[C \in Point, A \in Point, R \in Point, proof \in Proof] ==
    [X     |-> << DecString[C.x], DecString[A.x], DecString[R.x] >>,
     YBit  |-> << DecString[C.y % 2], DecString[A.y % 2], DecString[R.y % 2] >>,
     enc   |-> << proof.encryptedAmount, proof.encryptedMask >>,
     index |-> proof.index]

\* the compact on-chain record the contract returns for a deposited proof
compactOf[proof \in Proof] ==
    compactWith[decodeFrom[proof.commitment], decodeFrom[proof.onetimeAddress],
                decodeFrom[proof.txPublicKey], proof]

(***************************************************************************)
(* The methods of UTXO that test ownership.                                *)
(***************************************************************************)
\* the assignments made outside the if (decodedData) guard
storeDecodedUnguarded(this, decodedData) ==
    [this     |-> [this EXCEPT !.decodedAmount = <<decodedData.amount>>,
                               !.decodedMask = <<decodedData.mask>>,
                               !.privKey = <<decodedData.privKey>>],
     ret      |-> decodedData,
     assigned |-> TRUE,
     thrown   |-> "none"]

\* a negative result made terminal: the ciphertexts are dropped on a mismatch
storeDecodedTerminal(this, decodedData) ==
    IF ~decodedData.isNull
    THEN [this     |-> [this EXCEPT !.decodedAmount = <<decodedData.amount>>,
                                    !.decodedMask = <<decodedData.mask>>,
                                    !.privKey = <<decodedData.privKey>>],
          ret      |-> decodedData,
          assigned |-> TRUE,
          thrown   |-> "none"]
    ELSE [this     |-> [this EXCEPT !.amount = <<>>, !.mask = <<>>],
          ret      |-> decodedData,
          assigned |-> FALSE,
          thrown   |-> "none"]

\* lines 140-146 of checkOwnership: the object after the call, the value
\* returned, and whether the decoded fields were assigned
storeDecoded(this, decodedData) ==
    IF ~decodedData.isNull
    THEN [this     |-> [this EXCEPT !.decodedAmount = <<decodedData.amount>>,
                                    !.decodedMask = <<decodedData.mask>>,
                                    !.privKey = <<decodedData.privKey>>],
          ret      |-> decodedData,
          assigned |-> TRUE,
          thrown   |-> "none"]
    ELSE [this |-> this, ret |-> decodedData, assigned |-> FALSE, thrown |-> "none"]

\* checkOwnership passing the one-time address and the transaction public key
\* to checkTransactionProof in each other's place
checkOwnershipSwapped(this, privateSpendKey) ==
    CHOOSE c \in { storeDecoded(this, decodedData) :
                     decodedData \in { checkTransactionProof[
                                           generateKeys[privateSpendKey],
                                           getEncoded[this.lfStealth],
                                           getEncoded[this.lfTxPublicKey],
                                           this.amount,
                                           this.mask] } } : TRUE

\* checkOwnership(privateSpendKey)
checkOwnership(this, privateSpendKey) ==
    CHOOSE c \in { storeDecoded(this, decodedData) :
                     decodedData \in { checkTransactionProof[
                                           generateKeys[privateSpendKey],
                                           getEncoded[this.lfTxPublicKey],
                                           getEncoded[this.lfStealth],
                                           this.amount,
                                           this.mask] } } : TRUE

\* getRingCTKeys without its assertion: the negative result is returned
assertDecodedSilently(c) ==
    IF c.ret.isNull
    THEN c
    ELSE [c EXCEPT !.ret = [isNull |-> FALSE, amount |-> 0, mask |-> 0,
                            privKey |-> c.ret.privKey, pubKey |-> c.ret.pubKey]]

\* lines 194-199 of getRingCTKeys: assert(decodedUTXO, ...), then the keys
assertDecoded(c) ==
    IF c.ret.isNull
    THEN [c EXCEPT !.thrown = "AssertionError"]
    ELSE [c EXCEPT !.ret = [isNull |-> FALSE, amount |-> 0, mask |-> 0,
                            privKey |-> c.ret.privKey, pubKey |-> c.ret.pubKey]]

\* getRingCTKeys(privateSpendKey)
getRingCTKeys(this, privateSpendKey) ==
    CHOOSE g \in { assertDecoded(c) : c \in { checkOwnership(this, privateSpendKey) } } : TRUE

(***************************************************************************)
(* The state machine: one UTXO instance, built from a compact record or    *)
(* from a proof, and the calls made on it.                                 *)
(***************************************************************************)
VARIABLES
    input,      \* what the instance is built from, and what it was generated from
    pc,         \* "start" before construction, "decoded" after
    via,        \* "none", "compact" (new UTXO) or "proof" (UTXO.fromProof)
    this,       \* the fields of the instance
    lastOp,     \* the last method called
    lastKey,    \* the private spend key it was called with
    ret,        \* the value it returned
    thrown,     \* the error it raised, "none" when it returned
    writes,     \* how many times the decoded fields were assigned
    nFail,      \* how many ownership tests were negative so far
    calls       \* how many method calls were made

vars == <<input, pc, via, this, lastOp, lastKey, ret, thrown, writes, nFail, calls>>

Keys == 1..MaxKey

NoProof ==
    [onetimeAddress |-> <<>>, txPublicKey |-> <<>>, encryptedAmount |-> 0,
     mask |-> 0, commitment |-> <<>>, encryptedMask |-> 0, index |-> 0]

\* a coin generated for a key pair, as the deposit test does
inputOf[pr \in Proof, k \in Nat, a \in Nat, m \in Nat] ==
    [kind |-> "generated", utxo |-> compactOf[pr], proof |-> pr,
     owner |-> k, amount |-> a, mask |-> m, point |-> infinity, field |-> 0]

Generated(k, a, m, r) ==
    inputOf[genTransactionProof[generateKeys[k], a, m, r, a + m], k, a, m]

GeneratedInputs ==
    { Generated(k, a, m, r) :
        k \in Keys, a \in 1..MaxAmount, m \in 1..MaxMask, r \in 1..MaxR }

\* records that were not generated: any small X-coordinates, on the curve or not
RawInputs ==
    { [kind |-> "raw",
       utxo |-> [X |-> << DecString[tx], DecString[px], DecString[tx] >>,
                 YBit |-> << DecString[bit], DecString[bit], DecString[bit] >>,
                 enc |-> << 1, 2 >>, index |-> 0],
       proof |-> NoProof, owner |-> 0, amount |-> 0, mask |-> 0,
       point |-> infinity, field |-> 0] :
        px \in 0..MaxRawX, tx \in 0..MaxRawX, bit \in 0..1 }

Init ==
    /\ input \in GeneratedInputs \cup RawInputs
    /\ pc = "start"
    /\ via = "none"
    /\ this = NoUTXO
    /\ lastOp = "none"
    /\ lastKey = 0
    /\ ret = Null
    /\ thrown = "none"
    /\ writes = 0
    /\ nFail = 0
    /\ calls = 0

\* new UTXO(record)
New ==
    /\ pc = "start"
    /\ this' = constructor(input.utxo)
    /\ pc' = "decoded"
    /\ via' = "compact"
    /\ lastOp' = "new"
    /\ UNCHANGED <<input, lastKey, ret, thrown, writes, nFail, calls>>

\* UTXO.fromProof(proof)
FromProof ==
    /\ pc = "start"
    /\ input.kind = "generated"
    /\ this' = fromProof(input.proof)
    /\ pc' = "decoded"
    /\ via' = "proof"
    /\ lastOp' = "fromProof"
    /\ UNCHANGED <<input, lastKey, ret, thrown, writes, nFail, calls>>

\* this.checkOwnership(k)
CheckOwnership(k) ==
    /\ pc = "decoded"
    /\ calls < MaxCalls
    /\ \E c \in { checkOwnership(this, k) } :
           /\ this' = c.this
           /\ ret' = c.ret
           /\ thrown' = c.thrown
           /\ writes' = IF c.assigned THEN writes + 1 ELSE writes
           /\ nFail' = IF c.ret.isNull THEN nFail + 1 ELSE nFail
    /\ lastOp' = "checkOwnership"
    /\ lastKey' = k
    /\ calls' = calls + 1
    /\ UNCHANGED <<input, pc, via>>

\* this.getRingCTKeys(k)
GetRingCTKeys(k) ==
    /\ pc = "decoded"
    /\ calls < MaxCalls
    /\ \E c \in { getRingCTKeys(this, k) } :
           /\ this' = c.this
           /\ ret' = c.ret
           /\ thrown' = c.thrown
           /\ writes' = IF c.assigned THEN writes + 1 ELSE writes
           /\ nFail' = IF c.ret.isNull THEN nFail + 1 ELSE nFail
    /\ lastOp' = "getRingCTKeys"
    /\ lastKey' = k
    /\ calls' = calls + 1
    /\ UNCHANGED <<input, pc, via>>

Next ==
    \/ New
    \/ FromProof
    \/ \E k \in Keys : CheckOwnership(k)
    \/ \E k \in Keys : GetRingCTKeys(k)

Spec == Init /\ [][Next]_vars

(***************************************************************************)
(* The point codec alone: a record is decoded, whatever its X-coordinates. *)
(***************************************************************************)
\* a record whose field f holds (x, bit) and whose other fields hold G
recordWith[f \in 1..3, x \in Nat, bit \in Nat] ==
    [X     |-> [i \in 1..3 |-> IF i = f THEN DecString[x] ELSE DecString[ecparams.G.x]],
     YBit  |-> [i \in 1..3 |-> IF i = f THEN DecString[bit]
                               ELSE DecString[ecparams.G.y % 2]],
     enc   |-> << 1, 2 >>,
     index |-> 0]

\* the compact form of a point of the curve, in field f
pointInput[f \in 1..3, Q \in Point] ==
    [kind |-> "point", utxo |-> recordWith[f, Q.x, Q.y % 2], proof |-> NoProof,
     owner |-> 0, amount |-> 0, mask |-> 0, point |-> Q, field |-> f]

\* every point of the curve but infinity: the multiples of G
PointInputs ==
    { pointInput[f, multiply[ecparams.G, k]] : f \in 1..3, k \in 1..(ecparams.n - 1) }

\* every X-coordinate of the field, on the curve or not, with every parity digit
XInputs ==
    { [kind |-> "raw", utxo |-> recordWith[f, x, bit], proof |-> NoProof,
       owner |-> 0, amount |-> 0, mask |-> 0, point |-> infinity, field |-> f] :
        f \in 1..3, x \in 0..(ecparams.p - 1), bit \in 0..3 }

InitCodec ==
    /\ input \in PointInputs \cup XInputs
    /\ pc = "start"
    /\ via = "none"
    /\ this = NoUTXO
    /\ lastOp = "none"
    /\ lastKey = 0
    /\ ret = Null
    /\ thrown = "none"
    /\ writes = 0
    /\ nFail = 0
    /\ calls = 0

NextCodec == New

SpecCodec == InitCodec /\ [][NextCodec]_vars

(***************************************************************************)
(* Properties.                                                             *)
(***************************************************************************)
\* the point an instance holds for field f of its record
lfPoint(obj, f) ==
    CASE f = 1 -> obj.lfCommitment
      [] f = 2 -> obj.lfStealth
      [] f = 3 -> obj.lfTxPublicKey

\* the X-coordinate string an instance holds for field f of its record
xString(obj, f) ==
    CASE f = 1 -> obj.commitmentX
      [] f = 2 -> obj.pubkeyX
      [] f = 3 -> obj.txPubX

\* P = q G + S for the key pair of spend key k, on encoded coordinates
Owns(obj, k) ==
    getEncoded[obj.lfStealth]
        = getEncoded[expectedAddress[generateKeys[k],
                         sharedSecret[generateKeys[k], getEncoded[obj.lfTxPublicKey]]]]

\* the instance was decoded from the compact record of a generated coin
GeneratedCompact ==
    /\ pc = "decoded"
    /\ via = "compact"
    /\ input.kind = "generated"

\* C1: for a coin generated for the key pair of K with amount a and mask m and
\* decoded from its compact record, checkOwnership(K) returns a non-null result
\* with amount a and mask m and stores them in decodedAmount and decodedMask.
C1_OwnerDecodesGenerationInputs ==
    (GeneratedCompact /\ lastOp = "checkOwnership" /\ lastKey = input.owner)
        => /\ ~ret.isNull
           /\ thrown = "none"
           /\ ret.amount = input.amount
           /\ ret.mask = input.mask
           /\ this.decodedAmount = <<input.amount>>
           /\ this.decodedMask = <<input.mask>>

C1_Witness ==
    /\ GeneratedCompact
    /\ lastOp = "checkOwnership"
    /\ lastKey = input.owner
    /\ ~ret.isNull
    /\ this.decodedAmount = <<input.amount>>
    /\ input.amount = 2

\* C2: checkOwnership with a key whose pair does not satisfy P = q G + S
\* returns the negative result without throwing and changes no field of the
\* instance.
C2_MismatchIsSideEffectFree ==
    [][(lastOp' = "checkOwnership" /\ calls' = calls + 1 /\ ~Owns(this, lastKey'))
          => (ret' = Null /\ thrown' = "none" /\ this' = this)]_vars

C2_Witness ==
    /\ pc = "decoded"
    /\ lastOp = "checkOwnership"
    /\ ~Owns(this, lastKey)
    /\ ret = Null
    /\ this.decodedAmount = undefined
    /\ this.privKey = undefined

\* C3: each decoded field is assigned at most one time over any sequence of
\* checkOwnership and getRingCTKeys calls on one instance.
C3_WriteOnce == writes <= 1

\* C4: decoding fails with InvalidPoint when an X-coordinate is on no point of
\* the curve; no instance holding an off-curve point is ever produced.
C4_NoOffCurvePoint ==
    pc = "decoded"
        => /\ isOnCurve(this.lfCommitment)
           /\ isOnCurve(this.lfStealth)
           /\ isOnCurve(this.lfTxPublicKey)

\* C5: fromProof yields an instance whose three points are exactly the proof's
\* points, with amount, mask and index taken from the proof.
C5_FromProofKeepsPoints ==
    (pc = "decoded" /\ via = "proof")
        => /\ this.lfCommitment = decodeFrom[input.proof.commitment]
           /\ this.lfStealth = decodeFrom[input.proof.onetimeAddress]
           /\ this.lfTxPublicKey = decodeFrom[input.proof.txPublicKey]
           /\ this.amount = numberToHex[input.proof.encryptedAmount]
           /\ this.mask = numberToHex[input.proof.encryptedMask]
           /\ this.index = input.proof.index

\* C6: for every point Q of the curve, a record holding X(Q) and the parity of
\* Y(Q) decodes to Q; decoding the same record again yields the same points.
C6_RoundTrip ==
    (pc = "decoded" /\ input.kind = "point")
        => /\ lfPoint(this, input.field) = input.point
           /\ ParseDec[xString(this, input.field)] = input.point.x
           /\ \A f \in 1..3 : lfPoint(constructor(input.utxo), f) = lfPoint(this, f)

C6_Witness ==
    /\ pc = "decoded"
    /\ input.kind = "point"
    /\ input.point.y % 2 = 1
    /\ input.point.x >= 256
    /\ lfPoint(this, input.field) = input.point

\* C7: for a coin generated with amount a and mask m, verifyCommitment(a, m,
\* {X: commitmentX, YBit: commitmentYBit}) is true, the decoded lfCommitment is
\* genCommitment(a, m), and a or m changed by 1 makes verifyCommitment false.
C7_CommitmentConsistent ==
    GeneratedCompact
        => LET a == input.amount
               m == input.mask
               c == [X |-> this.commitmentX, YBit |-> this.commitmentYBit]
           IN  /\ verifyCommitment(a, m, c)
               /\ this.lfCommitment = genCommitment[a, m]
               /\ ~verifyCommitment(a + 1, m, c)
               /\ ~verifyCommitment(a - 1, m, c)
               /\ ~verifyCommitment(a, m + 1, c)
               /\ ~verifyCommitment(a, m - 1, c)

C7_Witness ==
    /\ GeneratedCompact
    /\ lastOp = "new"
    /\ this.lfCommitment = genCommitment[input.amount, input.mask]
    /\ this.lfCommitment.y % 2 = 1

\* C9 as stated: for a key that does not own the coin, checkOwnership and
\* getRingCTKeys both complete and return a negative result, raising nothing.
C9_NeverThrown ==
    (lastOp \in {"checkOwnership", "getRingCTKeys"} /\ ~Owns(this, lastKey))
        => (thrown = "none" /\ ret = Null)

\* C9 amended: checkOwnership never raises, and returns the negative result
\* for a key that does not own the coin; getRingCTKeys raises an
\* AssertionError for such a key, and returns keys only for an owning one.
C9_OnlyGetRingCTKeysThrows ==
    /\ lastOp = "checkOwnership" => thrown = "none"
    /\ (lastOp = "checkOwnership" /\ ~Owns(this, lastKey)) => ret = Null
    /\ (lastOp = "getRingCTKeys" /\ ~Owns(this, lastKey))
           => (thrown = "AssertionError" /\ ret = Null)
    /\ (lastOp = "getRingCTKeys" /\ Owns(this, lastKey))
           => (thrown = "none" /\ ~ret.isNull)

C9_Witness ==
    /\ lastOp = "getRingCTKeys"
    /\ ~Owns(this, lastKey)
    /\ thrown = "AssertionError"

\* C10: after any sequence of negative ownership tests on an instance, a
\* checkOwnership with the owning key succeeds, and returns and stores what it
\* does on a freshly decoded instance of the same coin.
C10_NegativeIsNotTerminal ==
    (GeneratedCompact /\ lastOp = "checkOwnership" /\ lastKey = input.owner
        /\ nFail = calls - 1)
        => \A fresh \in { checkOwnership(constructor(input.utxo), lastKey) } :
               /\ ~ret.isNull
               /\ ret = fresh.ret
               /\ this = fresh.this

C10_Witness ==
    /\ GeneratedCompact
    /\ lastOp = "checkOwnership"
    /\ lastKey = input.owner
    /\ nFail = 2
    /\ calls = 3
    /\ ~ret.isNull
    /\ this.privKey = <<ret.privKey>>

====
